---- MODULE Spec2Model ----
(***************************************************************************)
(* A model of the OData query parser of delveper/odata: ParseURL and the   *)
(* four option parsers it calls (parseFilter, parseOrderBy, parseTop,      *)
(* parseSkip), the schema reflection (getStructFieldData) and the SQL      *)
(* rendering (EvaluateQuery).                                              *)
(*                                                                         *)
(* Text is modelled character by character: a Go string is a sequence of   *)
(* one-character strings, a position is the number of characters already   *)
(* consumed (0 .. Len(s)).  A nil pointer is the value Nil.                *)
(***************************************************************************)
EXTENDS Integers, Sequences, FiniteSets, TLC

\* url, src: the arguments of the calls; f: the DataFilter; parsed: whether
\* ParseURL has filled f; ret: what the last call returned
VARIABLES url, src, f, parsed, ret

vars == <<url, src, f, parsed, ret>>

\* a nil pointer, and a pointer to v
Nil == <<>>

Ptr(v) == <<v>>

Deref(p) == p[1]

(***************************************************************************)
(* Bounds of the model.                                                    *)
(***************************************************************************)
\* longest $top / $skip value that is enumerated character by character
MaxNumLen == 2
\* longest run of blanks put between the tokens of a $filter clause
MaxBlanks == 2

(***************************************************************************)
(* Characters and elementary string functions.                             *)
(***************************************************************************)
DigitChars == <<"0", "1", "2", "3", "4", "5", "6", "7", "8", "9">>

IsDigit(c) == c \in {"0", "1", "2", "3", "4", "5", "6", "7", "8", "9"}

DigitVal(c) == (CHOOSE i \in 1..10 : DigitChars[i] = c) - 1

\* the characters of \s and of strings.TrimSpace that the model's texts use
IsSpace(c) == c \in {" ", "\t", "\n", "\r"}

LowerChars ==
  {"a", "b", "c", "d", "e", "f", "g", "h", "i", "j", "k", "l", "m",
   "n", "o", "p", "q", "r", "s", "t", "u", "v", "w", "x", "y", "z"}

Max(S) == CHOOSE x \in S : \A y \in S : y <= x

Min(S) == CHOOSE x \in S : \A y \in S : x <= y

\* s[pos+1 ..] starts with p
HasPrefixAt(s, pos, p) ==
  /\ pos + Len(p) <= Len(s)
  /\ \A k \in 1..Len(p) : s[pos + k] = p[k]

\* the character classes of the patterns: \d, \s, [^'], a comma, [^&$]
InClass(cls, c) ==
  CASE cls = "digit" -> IsDigit(c)
    [] cls = "space" -> IsSpace(c)
    [] cls = "notquote" -> c # "'"
    [] cls = "comma" -> c = ","
    [] cls = "value" -> c \notin {"&", "$"}

\* the number of consecutive characters of class cls from position pos on
RECURSIVE RunLen(_, _, _)
RunLen(s, pos, cls) ==
  IF pos < Len(s) /\ InClass(cls, s[pos + 1])
  THEN 1 + RunLen(s, pos + 1, cls)
  ELSE 0

Cut(s, from, to) == SubSeq(s, from + 1, to)

\* strings.TrimSpace(s) != ""
NotBlank(s) == \E k \in 1..Len(s) : ~IsSpace(s[k])

\* strings.Replace(s, old, new, -1) for a non-empty old
RECURSIVE StringsReplace(_, _, _)
StringsReplace(s, old, new) ==
  IF s = <<>> THEN <<>>
  ELSE IF HasPrefixAt(s, 0, old)
       THEN new \o StringsReplace(Cut(s, Len(old), Len(s)), old, new)
       ELSE <<s[1]>> \o StringsReplace(Tail(s), old, new)

\* fmt's %v of an int
RECURSIVE NatStr(_)
NatStr(n) ==
  IF n < 10 THEN <<DigitChars[n + 1]>>
  ELSE NatStr(n \div 10) \o <<DigitChars[(n % 10) + 1]>>

Itoa(n) == IF n < 0 THEN <<"-">> \o NatStr(0 - n) ELSE NatStr(n)


(***************************************************************************)
(* Go maps.  A map is the sequence of its <<key, value>> entries in slot   *)
(* order, which for the maps of this program (at most 8 entries, one       *)
(* bucket) is the order of first insertion.  A range statement starts at   *)
(* a slot chosen at random and walks the slots cyclically, so the orders   *)
(* a build can produce are the rotations of the slot order; every range    *)
(* statement draws its own.                                                *)
(***************************************************************************)
MapHas(m, k) == \E i \in 1..Len(m) : m[i][1] = k

\* m[k], the zero value "" when k is no key
MapGet(m, k) ==
  IF MapHas(m, k) THEN m[CHOOSE i \in 1..Len(m) : m[i][1] = k][2] ELSE <<>>

\* m[k] = v
MapPut(m, k, v) ==
  IF MapHas(m, k)
  THEN [i \in 1..Len(m) |-> IF m[i][1] = k THEN <<k, v>> ELSE m[i]]
  ELSE Append(m, <<k, v>>)

Rotate(m, r) == [i \in 1..Len(m) |-> m[((i + r - 1) % Len(m)) + 1]]

\* the orders in which `for k, v := range m` can visit m
IterOrders(m) ==
  IF m = <<>> THEN {<<>>} ELSE {Rotate(m, r) : r \in 0..(Len(m) - 1)}

\* `for k := range m { list = append(list, k) }`
RECURSIVE KeyList(_)
KeyList(m) == IF m = <<>> THEN <<>> ELSE <<m[1][1]>> \o KeyList(Tail(m))

\* `for k, v := range m { list = append(list, k, v) }`
RECURSIVE KeyValueList(_)
KeyValueList(m) ==
  IF m = <<>> THEN <<>> ELSE <<m[1][1], m[1][2]>> \o KeyValueList(Tail(m))

\* `for k, v := range m { list = append(list, v, k) }`
RECURSIVE ValueKeyList(_)
ValueKeyList(m) ==
  IF m = <<>> THEN <<>> ELSE <<m[1][2], m[1][1]>> \o ValueKeyList(Tail(m))

\* the alternatives of the group (a|b|c) that strings.Join(list, "|") spells:
\* an empty list spells the group (), whose one alternative is the empty text
Alternatives(list) == IF list = <<>> THEN << <<>> >> ELSE list

(***************************************************************************)
(* Errors.                                                                 *)
(***************************************************************************)
NoError == "nil"

ErrInvalidQuery == "invalid OData query"

ErrSyntax == "strconv.Atoi: invalid syntax"

ErrNotStruct == "input value must be struct"

(***************************************************************************)
(* The option names.                                                       *)
(***************************************************************************)
filter == <<"$", "f", "i", "l", "t", "e", "r">>

orderBy == <<"$", "o", "r", "d", "e", "r", "b", "y">>

top == <<"$", "t", "o", "p">>

skip == <<"$", "s", "k", "i", "p">>

(***************************************************************************)
(* parseQueryOption: the leftmost occurrence of the option name and "=",    *)
(* then the longest run of characters other than "&" and "$" (group 2 of   *)
(* the pattern).                                                           *)
(***************************************************************************)
parseQueryOption(query, opt) ==
  LET key    == opt \o <<"=">>
      starts == {p \in 0..Len(query) : HasPrefixAt(query, p, key)}
  IN  IF starts = {} THEN <<>>
      ELSE LET from == Min(starts) + Len(key)
           IN  Cut(query, from, from + RunLen(query, from, "value"))

(***************************************************************************)
(* strconv.Atoi on the short texts of the model (no value leaves the range *)
(* of int): an optional sign, then one or more decimal digits.             *)
(***************************************************************************)
RECURSIVE DigitsVal(_, _)
DigitsVal(s, acc) ==
  IF s = <<>> THEN acc ELSE DigitsVal(Tail(s), acc * 10 + DigitVal(s[1]))

Atoi(s) ==
  LET signed == s # <<>> /\ s[1] \in {"-", "+"}
      body   == IF signed THEN Tail(s) ELSE s
  IN  IF body = <<>> \/ \E k \in 1..Len(body) : ~IsDigit(body[k])
      THEN [val |-> 0, err |-> ErrSyntax]
      ELSE [val |-> IF s[1] = "-" THEN 0 - DigitsVal(body, 0)
                    ELSE DigitsVal(body, 0),
            err |-> NoError]

parseSkip(u) ==
  LET query == parseQueryOption(u, skip)
  IN  IF query = <<>> THEN [val |-> Nil, err |-> NoError]
      ELSE LET a == Atoi(query)
           IN  IF a.err # NoError THEN [val |-> Nil, err |-> a.err]
               ELSE [val |-> Ptr(a.val), err |-> NoError]

\* a parseTop that refuses a negative number
parseTopNonNegative(u) ==
  LET query == parseQueryOption(u, top)
  IN  IF query = <<>> THEN [val |-> Nil, err |-> NoError]
      ELSE LET a == Atoi(query)
           IN  IF a.err # NoError \/ a.val < 0
               THEN [val |-> Nil, err |-> ErrSyntax]
               ELSE [val |-> Ptr(a.val), err |-> NoError]

parseTop(u) ==
  LET query == parseQueryOption(u, top)
  IN  IF query = <<>> THEN [val |-> Nil, err |-> NoError]
      ELSE LET a == Atoi(query)
           IN  IF a.err # NoError THEN [val |-> Nil, err |-> a.err]
               ELSE [val |-> Ptr(a.val), err |-> NoError]

(***************************************************************************)
(* The keyword maps, in the order of their literals.                       *)
(***************************************************************************)
operMap ==
  << << <<"e", "q">>, <<"=">> >>,
     << <<"n", "e">>, <<"!", "=">> >>,
     << <<"g", "t">>, <<">">> >>,
     << <<"l", "t">>, <<"<">> >>,
     << <<"l", "t", "e">>, <<"<", "=">> >>,
     << <<"g", "t", "e">>, <<">", "=">> >> >>

conjMap ==
  << << <<"a", "n", "d">>, <<"A", "N", "D">> >>,
     << <<"o", "r">>, <<"O", "R">> >> >>

sortMap ==
  << << <<"a", "s", "c">>, <<"A", "S", "C">> >>,
     << <<"d", "e", "s", "c">>, <<"D", "E", "S", "C">> >>,
     << <<"A", "S", "C">>, <<"A", "S", "C">> >>,
     << <<"D", "E", "S", "C">>, <<"D", "E", "S", "C">> >> >>

(***************************************************************************)
(* The pattern of parseFilter,                                             *)
(*   (field)\s+(operator)\s+(value)\s*(conjunction)*\s*                    *)
(* with value either \d+ or a quote, one or more non-quotes and a quote.   *)
(* Go's regexp returns, at the leftmost position where the pattern         *)
(* matches, the match a backtracking search finds first: alternatives are  *)
(* tried in the order written, repetitions longest first.  Everything      *)
(* after the value can match the empty text, so the search backtracks only *)
(* within field, blanks, operator, blanks; the operators below compute     *)
(* the first success of that search from the inside out.                   *)
(***************************************************************************)
\* the first (least) element of a set of alternatives, 0 when it is empty
FirstOf(ok) == IF ok = {} THEN 0 ELSE Min(ok)

\* q and the longest of a set of repetition counts, -1 when it is empty
LongestFrom(q, ok) == IF ok = {} THEN -1 ELSE q + Max(ok)

\* a quoted value of r >= 1 characters at q: where it ends, -1 when none
QuotedEnd(s, q, r) ==
  IF r >= 1 /\ HasPrefixAt(s, q + 1 + r, <<"'">>) THEN q + r + 2 ELSE -1

\* a value of d digits at q when d >= 1, else a quoted value
DigitsOrQuotedEnd(s, q, d) ==
  IF d >= 1 THEN q + d
  ELSE IF HasPrefixAt(s, q, <<"'">>)
       THEN QuotedEnd(s, q, RunLen(s, q + 1, "notquote"))
       ELSE -1

\* the value group at q: where its preferred match ends, -1 when none
ValueEnd(s, q) == DigitsOrQuotedEnd(s, q, RunLen(s, q, "digit"))

\* \s+ and the value group from q: where the value starts, -1 when none
ValueAfter(s, q) ==
  LongestFrom(q, {m \in 1..RunLen(s, q, "space") : ValueEnd(s, q + m) >= 0})

\* the operator group at q: the first alternative after which the rest of
\* the clause matches, 0 when none
OperAt(s, q, oa) ==
  FirstOf({k \in 1..Len(oa) :
             /\ HasPrefixAt(s, q, oa[k])
             /\ ValueAfter(s, q + Len(oa[k])) >= 0})

\* \s+ and the operator group from q: where the operator starts, -1 when none
OperAfter(s, q, oa) ==
  LongestFrom(q, {m \in 1..RunLen(s, q, "space") : OperAt(s, q + m, oa) > 0})

\* a search that keeps the first field alternative that is a prefix of the
\* text and never comes back to try a later one
FieldAtFirstPrefix(s, p, fa, oa) ==
  FirstOf({k \in 1..Len(fa) :
             /\ HasPrefixAt(s, p, fa[k])
             /\ \A j \in 1..(k - 1) : ~HasPrefixAt(s, p, fa[j])
             /\ OperAfter(s, p + Len(fa[k]), oa) >= 0})

\* the field group at p: the first alternative after which the rest of the
\* clause matches, 0 when none
FieldAt(s, p, fa, oa) ==
  FirstOf({k \in 1..Len(fa) :
             /\ HasPrefixAt(s, p, fa[k])
             /\ OperAfter(s, p + Len(fa[k]), oa) >= 0})

\* (conjunction)* from q: the repetitions taken, the group keeps the last one
ConjNext(s, q, ca) == FirstOf({k \in 1..Len(ca) : HasPrefixAt(s, q, ca[k])})

RECURSIVE ConjStar(_, _, _, _, _)
ConjStar(s, q, ca, last, k) ==
  IF k = 0 THEN [end |-> q, conjunction |-> last]
  ELSE ConjStar(s, q + Len(ca[k]), ca, ca[k], ConjNext(s, q + Len(ca[k]), ca))

NoMatch ==
  [start |-> -1, end |-> -1, field |-> <<>>, operator |-> <<>>,
   value |-> <<>>, conjunction |-> <<>>]

\* The match that starts at p, assembled group by group: the field fld, the
\* operator op that starts at os, the value from vs to ve, the trailing
\* blanks, conjunctions cj and blanks.
MatchWithTail(s, p, fld, op, vs, ve, cj) ==
  [start |-> p,
   end |-> cj.end + RunLen(s, cj.end, "space"),
   field |-> fld,
   operator |-> op,
   value |-> Cut(s, vs, ve),
   conjunction |-> cj.conjunction]

TailFrom(s, q, ca) == ConjStar(s, q, ca, <<>>, ConjNext(s, q, ca))

MatchWithValue(s, p, fld, op, vs, ve, ca) ==
  MatchWithTail(s, p, fld, op, vs, ve,
                TailFrom(s, ve + RunLen(s, ve, "space"), ca))

MatchWithOper(s, p, fld, op, vs, ca) ==
  MatchWithValue(s, p, fld, op, vs, ValueEnd(s, vs), ca)

MatchWithOperAt(s, p, fld, op, os, ca) ==
  MatchWithOper(s, p, fld, op, ValueAfter(s, os + Len(op)), ca)

MatchWithField(s, p, fld, oa, os, ca) ==
  MatchWithOperAt(s, p, fld, oa[OperAt(s, os, oa)], os, ca)

MatchWithFieldAt(s, p, fa, oa, ca, fk) ==
  IF fk = 0 THEN NoMatch
  ELSE MatchWithField(s, p, fa[fk], oa, OperAfter(s, p + Len(fa[fk]), oa), ca)

\* the match of the whole pattern that starts at p, with its four groups
FilterMatchAt(s, p, fa, oa, ca) ==
  MatchWithFieldAt(s, p, fa, oa, ca, FieldAt(s, p, fa, oa))

\* m when it is a match, else the leftmost match that starts after pos
RECURSIVE FilterFindNext(_, _, _, _, _, _)
FilterFindNext(s, pos, fa, oa, ca, m) ==
  IF m.end >= 0 \/ pos >= Len(s) THEN m
  ELSE FilterFindNext(s, pos + 1, fa, oa, ca,
                      FilterMatchAt(s, pos + 1, fa, oa, ca))

\* the leftmost match that starts at pos or later
FilterFind(s, pos, fa, oa, ca) ==
  FilterFindNext(s, pos, fa, oa, ca, FilterMatchAt(s, pos, fa, oa, ca))

\* re.FindAllStringSubmatch(query, -1): the successive non-overlapping
\* matches, m the first of them (a match of this pattern is never empty: it
\* holds two \s+)
RECURSIVE FilterFindAllFrom(_, _, _, _, _)
FilterFindAllFrom(s, fa, oa, ca, m) ==
  IF m.end < 0 THEN <<>>
  ELSE <<m>> \o FilterFindAllFrom(s, fa, oa, ca,
                                  FilterFind(s, m.end, fa, oa, ca))

FilterFindAll(s, fa, oa, ca) ==
  FilterFindAllFrom(s, fa, oa, ca, FilterFind(s, 0, fa, oa, ca))

\* re.ReplaceAllLiteralString(query, ""): the text outside the matches
RECURSIVE RemoveMatches(_, _, _)
RemoveMatches(s, from, matches) ==
  IF matches = <<>> THEN Cut(s, from, Len(s))
  ELSE Cut(s, from, matches[1].start)
         \o RemoveMatches(s, matches[1].end, Tail(matches))

(***************************************************************************)
(* Filter: the chain of nodes from Head along Next is the sequence Head    *)
(* (the empty sequence is a nil Head).                                     *)
(***************************************************************************)
NewFilter == [Head |-> <<>>]

Insert(fil, new) == [Head |-> Append(fil.Head, new)]

RECURSIVE InsertMatches(_, _, _)
InsertMatches(fil, matches, fieldMap) ==
  IF matches = <<>> THEN fil
  ELSE InsertMatches(
         Insert(fil, [Field |-> MapGet(fieldMap, matches[1].field),
                      Operator |-> MapGet(operMap, matches[1].operator),
                      Value |-> matches[1].value,
                      Conjunction |-> MapGet(conjMap, matches[1].conjunction)]),
         Tail(matches), fieldMap)

\* the result of parseFilter once the matches of the pattern are known
FilterOfMatches(query, fieldMap, matches) ==
  IF NotBlank(RemoveMatches(query, 0, matches))
  THEN [val |-> Nil, err |-> ErrInvalidQuery]
  ELSE [val |-> Ptr(InsertMatches(NewFilter, matches, fieldMap)),
        err |-> NoError]

\* parseFilter of the extracted value query
parseFilterQuery(query, fieldMap, fieldList, operList, conjList) ==
  IF query = <<>> THEN [val |-> Nil, err |-> NoError]
  ELSE FilterOfMatches(query, fieldMap,
                       FilterFindAll(query, Alternatives(fieldList),
                                     Alternatives(operList),
                                     Alternatives(conjList)))

\* parseFilter when its three range statements draw the orders fo, oo, co
parseFilterWith(u, fieldMap, fo, oo, co) ==
  parseFilterQuery(parseQueryOption(u, filter), fieldMap,
                   KeyValueList(fo), KeyList(oo), KeyList(co))

\* what parseFilter can return: one result for each draw of the orders
parseFilter(u, fieldMap) ==
  {parseFilterWith(u, fieldMap, fo, oo, co) :
     fo \in IterOrders(fieldMap), oo \in IterOrders(operMap),
     co \in IterOrders(conjMap)}

(***************************************************************************)
(* The pattern of parseOrderBy: a field alternative, then zero or more     *)
(* repetitions of one \s and a direction alternative, then zero or more    *)
(* commas.  All that follows the field can match the empty text, so the    *)
(* first field alternative that is a prefix of the text is the one taken.  *)
(***************************************************************************)
RECURSIVE SortStar(_, _, _)
SortStar(s, q, sa) ==
  IF q < Len(s) /\ IsSpace(s[q + 1])
  THEN LET hit == {k \in 1..Len(sa) : HasPrefixAt(s, q + 1, sa[k])}
       IN  IF hit = {} THEN q
           ELSE SortStar(s, q + 1 + Len(sa[Min(hit)]), sa)
  ELSE q

\* where the match that starts at p ends, -1 when there is none
OrderByMatchAt(s, p, fieldList, sortList) ==
  LET fa  == Alternatives(fieldList)
      hit == {k \in 1..Len(fa) : HasPrefixAt(s, p, fa[k])}
  IN  IF hit = {} THEN -1
      ELSE LET e == SortStar(s, p + Len(fa[Min(hit)]), Alternatives(sortList))
           IN  e + RunLen(s, e, "comma")

\* where the leftmost match at pos or later starts, -1 when there is none
RECURSIVE OrderByFind(_, _, _, _)
OrderByFind(s, pos, fieldList, sortList) ==
  IF pos > Len(s) THEN -1
  ELSE IF OrderByMatchAt(s, pos, fieldList, sortList) >= 0 THEN pos
  ELSE OrderByFind(s, pos + 1, fieldList, sortList)

\* re.ReplaceAllLiteralString(query, ""): the text outside the matches; the
\* search resumes at the end of a match, one character further after an
\* empty one
RECURSIVE OrderByRemainder(_, _, _, _, _)
OrderByRemainder(s, searchPos, lastMatchEnd, fieldList, sortList) ==
  LET a0 == OrderByFind(s, searchPos, fieldList, sortList)
      a1 == OrderByMatchAt(s, a0, fieldList, sortList)
  IN  IF a0 < 0 THEN Cut(s, lastMatchEnd, Len(s))
      ELSE Cut(s, lastMatchEnd, a0)
             \o OrderByRemainder(s, IF a1 > searchPos THEN a1 ELSE searchPos + 1,
                                 a1, fieldList, sortList)

\* `for k, v := range m { query = strings.Replace(query, k, v, -1) }`
RECURSIVE ReplaceEach(_, _)
ReplaceEach(query, m) ==
  IF m = <<>> THEN query
  ELSE ReplaceEach(StringsReplace(query, m[1][1], m[1][2]), Tail(m))

\* the check of the query against the pattern, when the range statements
\* that build the pattern draw the orders fo and so
OrderByRejected(query, fo, so) ==
  NotBlank(OrderByRemainder(query, 0, 0, KeyValueList(fo), ValueKeyList(so)))

\* the replacements, when their range statements draw the orders fr and sr
OrderByReplaced(query, fr, sr) == ReplaceEach(ReplaceEach(query, fr), sr)

\* what parseOrderBy can return: the orders of the first two range
\* statements decide whether the query is rejected, those of the last two
\* the text returned when it is not
parseOrderBy(u, fieldMap) ==
  LET query    == parseQueryOption(u, orderBy)
      rejected == {OrderByRejected(query, fo, so) :
                     fo \in IterOrders(fieldMap), so \in IterOrders(sortMap)}
  IN  IF query = <<>> THEN {[val |-> Nil, err |-> NoError]}
      ELSE (IF TRUE \in rejected
            THEN {[val |-> Nil, err |-> ErrInvalidQuery]} ELSE {})
           \cup
           (IF FALSE \in rejected
            THEN {[val |-> Ptr(OrderByReplaced(query, fr, sr)), err |-> NoError] :
                    fr \in IterOrders(fieldMap), sr \in IterOrders(sortMap)}
            ELSE {})

(***************************************************************************)
(* getStructFieldData.  A reflected value is [kind |-> k], a struct also   *)
(* has fields, a sequence of [name, tag, value]: the field's name, its     *)
(* `sql` tag ("" when it has none) and its value.  The nested map is       *)
(* merged in slot order (the model nests structs of one tagged field, of   *)
(* which a range has one order).                                           *)
(***************************************************************************)
RECURSIVE MergeInto(_, _)
MergeInto(res, nested) ==
  IF nested = <<>> THEN res
  ELSE MergeInto(MapPut(res, nested[1][1], nested[1][2]), Tail(nested))

RECURSIVE getStructFieldData(_)
RECURSIVE StructFieldLoop(_, _, _)
StructFieldLoop(fields, i, res) ==
  IF i > Len(fields) THEN [data |-> res, err |-> NoError]
  ELSE IF fields[i].name[1] \in LowerChars
       THEN StructFieldLoop(fields, i + 1, res)
  ELSE IF fields[i].tag = <<>>
       THEN StructFieldLoop(fields, i + 1, res)
  ELSE LET put == MapPut(res, fields[i].name, fields[i].tag)
       IN  IF fields[i].value.kind # "struct"
           THEN StructFieldLoop(fields, i + 1, put)
           ELSE LET nested == getStructFieldData(fields[i].value)
                IN  IF nested.err # NoError
                    THEN [data |-> <<>>, err |-> nested.err]
                    ELSE StructFieldLoop(fields, i + 1,
                                         MergeInto(put, nested.data))

getStructFieldData(v) ==
  IF v.kind # "struct" THEN [data |-> <<>>, err |-> ErrNotStruct]
  ELSE StructFieldLoop(v.fields, 1, <<>>)

(***************************************************************************)
(* ParseURL.  The error of getStructFieldData is overwritten by the next   *)
(* assignment to err before it is read.  What ParseURL can do is the set   *)
(* of records [err, filter, orderBy, top, skip]: the error returned and    *)
(* the values of the locals at the return.                                 *)
(***************************************************************************)
ParseURLResults(u, s) ==
  LET data == getStructFieldData(s).data
  IN  {[err |-> fr.err, filter |-> fr.val, orderBy |-> Nil, top |-> Nil,
        skip |-> Nil] :
         fr \in {r \in parseFilter(u, data) : r.err # NoError}}
      \cup
      UNION {
        {IF o.err # NoError
         THEN [err |-> o.err, filter |-> fr.val, orderBy |-> Nil, top |-> Nil,
               skip |-> Nil]
         ELSE IF parseTop(u).err # NoError
         THEN [err |-> parseTop(u).err, filter |-> fr.val, orderBy |-> o.val,
               top |-> Nil, skip |-> Nil]
         ELSE IF parseSkip(u).err # NoError
         THEN [err |-> parseSkip(u).err, filter |-> fr.val, orderBy |-> o.val,
               top |-> parseTop(u).val, skip |-> Nil]
         ELSE [err |-> NoError, filter |-> fr.val, orderBy |-> o.val,
               top |-> parseTop(u).val, skip |-> parseSkip(u).val] :
           o \in parseOrderBy(u, data)} :
        fr \in {r \in parseFilter(u, data) : r.err = NoError}}

(***************************************************************************)
(* EvaluateQuery.  A nil Filter, and a Filter whose Head is nil, make it   *)
(* dereference a nil pointer: the call panics.                             *)
(***************************************************************************)
Panic == "panic: nil pointer dereference"

eval(node) ==
  node.Field \o node.Operator \o node.Value \o <<" ">>
    \o node.Conjunction \o <<" ">>

RECURSIVE EvalChain(_)
EvalChain(nodes) ==
  IF nodes = <<>> THEN <<>> ELSE eval(nodes[1]) \o EvalChain(Tail(nodes))

EvaluateQuery(d) ==
  IF d.Filter = Nil \/ Deref(d.Filter).Head = <<>>
  THEN [panic |-> TRUE, query |-> <<>>]
  ELSE LET q0 == <<"W", "H", "E", "R", "E", " ">>
                   \o EvalChain(Deref(d.Filter).Head)
           q1 == IF d.OrderBy # Nil
                 THEN q0 \o <<"\n", "O", "R", "D", "E", "R", " ", "B", "Y", " ">>
                         \o Deref(d.OrderBy)
                 ELSE q0
           q2 == IF d.Skip # Nil
                 THEN q1 \o <<"\n", "O", "F", "F", "S", "E", "T", " ">>
                         \o Itoa(Deref(d.Skip))
                 ELSE q1
           q3 == IF d.Top # Nil
                 THEN q2 \o <<"\n", "L", "I", "M", "I", "T", " ">>
                         \o Itoa(Deref(d.Top))
                 ELSE q2
       IN  [panic |-> FALSE, query |-> q3]

(***************************************************************************)
(* The schemas the calls are made with.  Book is the record of main.go     *)
(* without its Genre, Rate and Size; Movie has the field map of the        *)
(* documented example; Quota and QuotaRev declare a field and a field it   *)
(* is a prefix of, in both orders; Nested has an unexported field, an      *)
(* untagged one and a tagged nested record that redefines Rate.            *)
(***************************************************************************)
sID == <<"I", "D">>

sid == <<"i", "d">>

sAuthorID == <<"A", "u", "t", "h", "o", "r", "I", "D">>

sauthor_id == <<"a", "u", "t", "h", "o", "r", "_", "i", "d">>

sTitle == <<"T", "i", "t", "l", "e">>

stitle == <<"t", "i", "t", "l", "e">>

sGenre == <<"G", "e", "n", "r", "e">>

sgenre == <<"g", "e", "n", "r", "e">>

sRate == <<"R", "a", "t", "e">>

srate == <<"r", "a", "t", "e">>

sRateLimit == <<"R", "a", "t", "e", "L", "i", "m", "i", "t">>

srate_limit == <<"r", "a", "t", "e", "_", "l", "i", "m", "i", "t">>

sMeta == <<"M", "e", "t", "a">>

smeta == <<"m", "e", "t", "a">>

smeta_rate == <<"m", "e", "t", "a", "_", "r", "a", "t", "e">>

sCreatedAt == <<"C", "r", "e", "a", "t", "e", "d", "A", "t">>

shidden == <<"h", "i", "d", "d", "e", "n">>

sUnknown == <<"U", "n", "k", "n", "o", "w", "n">>

Scalar == [kind |-> "string"]

Field(name, tag) == [name |-> name, tag |-> tag, value |-> Scalar]

Book ==
  [kind |-> "struct",
   fields |-> <<Field(sID, sid), Field(sAuthorID, sauthor_id),
                Field(sTitle, stitle),
                [name |-> sCreatedAt, tag |-> <<>>,
                 value |-> [kind |-> "struct", fields |-> <<>>]]>>]

Movie ==
  [kind |-> "struct",
   fields |-> <<Field(sRate, srate), Field(sGenre, sgenre),
                Field(sTitle, stitle)>>]

Quota ==
  [kind |-> "struct",
   fields |-> <<Field(sRate, srate), Field(sRateLimit, srate_limit)>>]

QuotaRev ==
  [kind |-> "struct",
   fields |-> <<Field(sRateLimit, srate_limit), Field(sID, sid),
                Field(sRate, srate)>>]

Nested ==
  [kind |-> "struct",
   fields |-> <<Field(sRate, srate), Field(shidden, sid),
                Field(sGenre, <<>>),
                [name |-> sMeta, tag |-> smeta,
                 value |-> [kind |-> "struct",
                            fields |-> <<Field(sRate, smeta_rate)>>]]>>]

NotAStruct == [kind |-> "int"]

(***************************************************************************)
(* The query strings the calls are made with, built from tokens.           *)
(***************************************************************************)
Blanks(n) == [i \in 1..n |-> " "]

Amp == <<"&">>

Option(opt, value) == opt \o <<"=">> \o value

Keys(m) == {m[i][1] : i \in 1..Len(m)}

Columns(m) == {m[i][2] : i \in 1..Len(m)}

sEq == <<"e", "q">>

sLt == <<"l", "t">>

sLte == <<"l", "t", "e">>

sIn == <<"i", "n">>

sAnd == <<"a", "n", "d">>

sOr == <<"o", "r">>

sDesc == <<"d", "e", "s", "c">>

sAsc == <<"a", "s", "c">>

s5 == <<"5">>

s10 == <<"1", "0">>

s100 == <<"1", "0", "0">>

sQuotedT == <<"'", "T", "'">>

sThriller == <<"'", "T", "h", "r", "i", "l", "l", "e", "r", "'">>

\* field, operator, value with b blanks between them
Clause(fld, op, val, b) == fld \o Blanks(b) \o op \o Blanks(b) \o val

\* the field tokens tried against field map m: its keys, its column names, a
\* name it does not know and the empty text
FieldTokens(m) == Keys(m) \cup Columns(m) \cup {sUnknown, <<>>}

OperTokens == Keys(operMap) \cup {sIn}

ValueTokens == {s5, sQuotedT}

\* one clause in every spelling, then nothing, a blank or a conjunction
SingleClauses(m) ==
  {Clause(fld, op, val, b) \o tl :
     fld \in FieldTokens(m), op \in OperTokens, val \in ValueTokens,
     b \in 1..MaxBlanks,
     tl \in {<<>>, <<" ">>, <<" ">> \o sAnd, <<" ">> \o sOr \o <<" ">>}}

\* two clauses, joined by a conjunction, by a blank or by nothing
ClausePairs(m) ==
  {Clause(fld, op, s5, 1) \o sep \o Clause(k, sEq, sQuotedT, 1) :
     fld \in FieldTokens(m), op \in {sEq, sLte},
     sep \in {<<" ">> \o sAnd \o <<" ">>, <<" ">> \o sOr \o <<" ">>,
              <<" ">>, <<>>},
     k \in Keys(m)}

FilterValues(m) == SingleClauses(m) \cup ClausePairs(m) \cup {<<" ">>}

DirTokens == Keys(sortMap) \cup {<<"D", "e", "s", "c">>}

OrderByItems(m) ==
  FieldTokens(m) \cup {fld \o <<" ">> \o d : fld \in FieldTokens(m), d \in DirTokens}

OrderBySeps == {<<",">>, <<",", " ">>, <<" ">>}

OrderByValues(m) ==
  OrderByItems(m)
    \cup {k \o d \o sep \o b :
            k \in Keys(m), d \in {<<>>, <<" ">> \o sAsc},
            sep \in OrderBySeps, b \in OrderByItems(m)}

NumChars == {"0", "5", "-", "+", "a"}

NumTexts == UNION {[1..n -> NumChars] : n \in 0..MaxNumLen}

PageUrls ==
  {Option(top, n) : n \in NumTexts}
    \cup {Option(skip, n) : n \in NumTexts}
    \cup {Option(skip, m) \o Amp \o Option(top, n) :
            n \in NumTexts, m \in {<<>>, s5, <<"-", "5">>, <<"a">>}}
    \cup {<<>>, <<"x", "=", "1">>}

\* the whole query strings ParseURL is called with: each option absent or
\* set to one of a few values, in the order $filter, $orderby, $top, $skip
Absent == <<"absent">>

\* the two field names the $filter values use, the two the $orderby values use
MainFields(m) ==
  IF m = <<>> THEN <<sRate, sGenre>> ELSE <<m[1][1], m[2][1]>>

MainFilterValues(m) ==
  {Clause(MainFields(m)[1], sLt, s100, 1),
   Clause(MainFields(m)[1], sLt, s100, 1) \o <<" ">> \o sAnd \o <<" ">>
     \o Clause(MainFields(m)[2], sEq, sThriller, 1),
   <<" ">>}

MainOrderByValues(m) ==
  IF m = <<>> THEN {sTitle \o <<" ">> \o sDesc}
  ELSE {m[2][1] \o <<" ">> \o sDesc, m[Len(m)][1] \o <<" ">> \o sDesc}

RECURSIVE JoinPresent(_)
JoinPresent(parts) ==
  IF parts = <<>> THEN <<>>
  ELSE IF parts[1] = Absent THEN JoinPresent(Tail(parts))
  ELSE LET rest == JoinPresent(Tail(parts))
       IN  IF rest = <<>> THEN parts[1] ELSE parts[1] \o Amp \o rest

MainUrls(m) ==
  {JoinPresent(<<fp, op, tp, sp>>) :
     fp \in {Absent} \cup {Option(filter, v) : v \in MainFilterValues(m)},
     op \in {Absent} \cup {Option(orderBy, v) : v \in MainOrderByValues(m)},
     tp \in {Absent} \cup {Option(top, v) : v \in {s100, <<"a">>}},
     sp \in {Absent} \cup {Option(skip, v) : v \in {s10}}}
    \cup {<<"x", "=", "1">>}

Schemas == {Book, Movie, Nested, NotAStruct}

ZeroDataFilter == [Filter |-> Nil, OrderBy |-> Nil, Top |-> Nil, Skip |-> Nil]

NoCall == [op |-> "none", res |-> [err |-> NoError]]

(***************************************************************************)
(* The calls.                                                              *)
(***************************************************************************)
\* f.ParseURL(url, src)
CallParseURL ==
  \E r \in ParseURLResults(url, src) :
    /\ f' = IF r.err = NoError
            THEN [Filter |-> r.filter, OrderBy |-> r.orderBy,
                  Top |-> r.top, Skip |-> r.skip]
            ELSE f
    /\ parsed' = (parsed \/ r.err = NoError)
    /\ ret' = [op |-> "ParseURL", res |-> r]
    /\ UNCHANGED <<url, src>>

\* f.EvaluateQuery()
CallEvaluateQuery ==
  /\ ret' = [op |-> "EvaluateQuery", res |-> EvaluateQuery(f)]
  /\ UNCHANGED <<url, src, f, parsed>>

\* parseFilter(url, data), data the field map of src
CallParseFilter ==
  \E r \in parseFilter(url, getStructFieldData(src).data) :
    /\ ret' = [op |-> "parseFilter", res |-> r]
    /\ UNCHANGED <<url, src, f, parsed>>

\* parseOrderBy(url, data), data the field map of src
CallParseOrderBy ==
  \E r \in parseOrderBy(url, getStructFieldData(src).data) :
    /\ ret' = [op |-> "parseOrderBy", res |-> r]
    /\ UNCHANGED <<url, src, f, parsed>>

CallParseTop ==
  /\ ret' = [op |-> "parseTop", res |-> parseTop(url)]
  /\ UNCHANGED <<url, src, f, parsed>>

CallParseSkip ==
  /\ ret' = [op |-> "parseSkip", res |-> parseSkip(url)]
  /\ UNCHANGED <<url, src, f, parsed>>

Fresh ==
  /\ f = ZeroDataFilter
  /\ parsed = FALSE
  /\ ret = NoCall

\* ParseURL and EvaluateQuery on a new DataFilter
Init ==
  /\ src \in Schemas
  /\ url \in MainUrls(getStructFieldData(src).data)
  /\ Fresh

Next == CallParseURL \/ CallEvaluateQuery

Spec == Init /\ [][Next]_vars

\* parseFilter alone
InitFilter ==
  /\ src \in {Quota, QuotaRev, NotAStruct}
  /\ url \in {Option(filter, v) : v \in FilterValues(getStructFieldData(src).data)}
  /\ Fresh

NextFilter == CallParseFilter

SpecFilter == InitFilter /\ [][NextFilter]_vars

\* parseOrderBy alone
InitOrderBy ==
  /\ src \in {Book, Quota, NotAStruct}
  /\ url \in {Option(orderBy, v) : v \in OrderByValues(getStructFieldData(src).data)}
  /\ Fresh

NextOrderBy == CallParseOrderBy

SpecOrderBy == InitOrderBy /\ [][NextOrderBy]_vars

\* parseTop and parseSkip alone
InitPage ==
  /\ src = NotAStruct
  /\ url \in PageUrls
  /\ Fresh

NextPage == CallParseTop \/ CallParseSkip

SpecPage == InitPage /\ [][NextPage]_vars

(***************************************************************************)
(* Properties.                                                             *)
(***************************************************************************)
HasOption(u, opt) == \E p \in 0..Len(u) : HasPrefixAt(u, p, opt)

NoOptions(u) == \A opt \in {filter, orderBy, top, skip} : ~HasOption(u, opt)

\* the field map of the schema of the calls
Data == getStructFieldData(src).data

HasSuffix(s, x) == Len(x) <= Len(s) /\ HasPrefixAt(s, Len(s) - Len(x), x)

RECURSIVE TrimRight(_)
TrimRight(s) ==
  IF s # <<>> /\ IsSpace(s[Len(s)]) THEN TrimRight(SubSeq(s, 1, Len(s) - 1))
  ELSE s

\* C1: a query string with none of the four options parses, for a record
\* schema, to a DataFilter with all four fields absent, and EvaluateQuery on
\* that DataFilter returns the empty text and does not fail.
C1_NoOptionsRenderEmpty ==
  (NoOptions(url) /\ src.kind = "struct") =>
    /\ ret.op = "ParseURL" => (ret.res.err = NoError /\ f = ZeroDataFilter)
    /\ (ret.op = "EvaluateQuery" /\ parsed) =>
         ret.res = [panic |-> FALSE, query |-> <<>>]

\* the rendering C2 describes: a node adds its conjunction and a blank only
\* when it has a conjunction
RECURSIVE ClaimedChain(_)
ClaimedChain(nodes) ==
  IF nodes = <<>> THEN <<>>
  ELSE nodes[1].Field \o nodes[1].Operator \o nodes[1].Value \o <<" ">>
         \o (IF nodes[1].Conjunction # <<>>
             THEN nodes[1].Conjunction \o <<" ">> ELSE <<>>)
         \o ClaimedChain(Tail(nodes))

ClaimedQuery(d) ==
  <<"W", "H", "E", "R", "E", " ">> \o ClaimedChain(Deref(d.Filter).Head)
    \o (IF d.OrderBy # Nil
        THEN <<"\n", "O", "R", "D", "E", "R", " ", "B", "Y", " ">> \o Deref(d.OrderBy)
        ELSE <<>>)
    \o (IF d.Skip # Nil
        THEN <<"\n", "O", "F", "F", "S", "E", "T", " ">> \o Itoa(Deref(d.Skip))
        ELSE <<>>)
    \o (IF d.Top # Nil
        THEN <<"\n", "L", "I", "M", "I", "T", " ">> \o Itoa(Deref(d.Top))
        ELSE <<>>)

ExampleUrl ==
  <<"$", "f", "i", "l", "t", "e", "r", "=", "R", "a", "t", "e",
    " ", "l", "t", " ", "1", "0", "0", " ", "a", "n", "d", " ",
    "G", "e", "n", "r", "e", " ", "e", "q", " ", "'", "T", "h",
    "r", "i", "l", "l", "e", "r", "'", "&", "$", "o", "r", "d",
    "e", "r", "b", "y", "=", "T", "i", "t", "l", "e", " ", "d",
    "e", "s", "c", "&", "$", "t", "o", "p", "=", "1", "0", "0",
    "&", "$", "s", "k", "i", "p", "=", "1", "0">>

ExampleQuery ==
  <<"W", "H", "E", "R", "E", " ", "r", "a", "t", "e", "<", "1",
    "0", "0", " ", "A", "N", "D", " ", "g", "e", "n", "r", "e",
    "=", "'", "T", "h", "r", "i", "l", "l", "e", "r", "'", " ",
    "\n", "O", "R", "D", "E", "R", " ", "B", "Y", " ", "t", "i",
    "t", "l", "e", " ", "D", "E", "S", "C", "\n", "O", "F", "F",
    "S", "E", "T", " ", "1", "0", "\n", "L", "I", "M", "I", "T",
    " ", "1", "0", "0">>

\* C2: for a DataFilter with a Filter chain, EvaluateQuery returns "WHERE ",
\* then for each node field, operator, value and one blank, and conjunction
\* and one blank only when the node has a conjunction, then ORDER BY, OFFSET
\* and LIMIT in this order for the options present; the documented example
\* renders to its documented text, one blank before the first newline.
C2_RenderedText ==
  /\ (ret.op = "EvaluateQuery" /\ f.Filter # Nil /\ Deref(f.Filter).Head # <<>>) =>
       ret.res = [panic |-> FALSE, query |-> ClaimedQuery(f)]
  /\ (ret.op = "EvaluateQuery" /\ parsed /\ src = Movie /\ url = ExampleUrl) =>
       ret.res = [panic |-> FALSE, query |-> ExampleQuery]

\* C3: a $filter value that is one clause over a key of the field map,
\* followed by a conjunction keyword and no further clause, makes parseFilter
\* return an invalid-query error and no Filter.
C3_TrailingConjunctionRejected ==
  (/\ ret.op = "parseFilter"
   /\ \E k \in Keys(Data), op \in Keys(operMap), val \in ValueTokens,
         b \in 1..MaxBlanks, c \in Keys(conjMap) :
        TrimRight(parseQueryOption(url, filter))
          = Clause(k, op, val, b) \o <<" ">> \o c) =>
    ret.res = [val |-> Nil, err |-> ErrInvalidQuery]

\* C4: with the field map of a struct, every node of a chain parseFilter
\* the non-empty column of a key of the field map: a
\* clause whose field token is no key is rejected.
C4_FieldsAreKeys ==
  (ret.op = "parseFilter" /\ src.kind = "struct" /\ ret.res.val # Nil) =>
    \A i \in 1..Len(Deref(ret.res.val).Head) :
      /\ Deref(ret.res.val).Head[i].Field # <<>>
      /\ Deref(ret.res.val).Head[i].Field \in Columns(Data)

IsProperPrefix(a, b) == Len(a) < Len(b) /\ HasPrefixAt(b, 0, a)

\* the keys of m that another key of m is a proper prefix of
LongerFields(m) == {k \in Keys(m) : \E j \in Keys(m) : IsProperPrefix(j, k)}

\* C5: when one key of the field map is a proper prefix of another, a $filter
\* value that is one clause naming the longer key parses, whatever order the
\* alternatives of the pattern are in, to the single node with the longer
\* key's column.
C5_LongerFieldParsed ==
  ret.op = "parseFilter" =>
    \A k \in LongerFields(Data), op \in Keys(operMap), val \in ValueTokens,
       b \in 1..MaxBlanks :
      parseQueryOption(url, filter) = Clause(k, op, val, b) =>
        ret.res = [val |-> Ptr([Head |-> <<[Field |-> MapGet(Data, k),
                                            Operator |-> MapGet(operMap, op),
                                            Value |-> val,
                                            Conjunction |-> <<>>]>>]),
                   err |-> NoError]

C5_Witness ==
  /\ ret.op = "parseFilter"
  /\ src = Quota
  /\ url = Option(filter, Clause(sRateLimit, <<"g", "t">>, s5, 1))
  /\ ret.res.err = NoError
  /\ Deref(ret.res.val).Head[1].Field = srate_limit

\* the value parseTop or parseSkip extracted in the last call
PageValue ==
  IF ret.op = "parseTop" THEN parseQueryOption(url, top)
  ELSE parseQueryOption(url, skip)

AllDigits(s) == s # <<>> /\ \A k \in 1..Len(s) : IsDigit(s[k])

\* an integer literal in base 10: an optional sign and digits
SignedLiteral(s) ==
  AllDigits(s) \/ (s # <<>> /\ s[1] \in {"+", "-"} /\ AllDigits(Tail(s)))

RECURSIVE Magnitude(_)
Magnitude(s) ==
  IF s = <<>> THEN 0
  ELSE 10 * Magnitude(SubSeq(s, 1, Len(s) - 1)) + DigitVal(s[Len(s)])

LiteralValue(s) ==
  IF s[1] = "-" THEN 0 - Magnitude(Tail(s))
  ELSE IF s[1] = "+" THEN Magnitude(Tail(s))
  ELSE Magnitude(s)

C7_SchemaError ==
  /\ (ret.op = "ParseURL" /\ src.kind # "struct") => ret.res.err # NoError
  /\ (ret.op = "ParseURL" /\ ret.res.err # NoError /\ ~parsed) =>
       f = ZeroDataFilter

\* the direction keyword in upper case
UpperCase(d) ==
  IF d \in {sAsc, <<"A", "S", "C">>} THEN <<"A", "S", "C">>
  ELSE <<"D", "E", "S", "C">>

\* nothing, or a blank and a direction keyword, as the claim rewrites it
ClaimedDirection(d) == IF d = <<>> THEN <<>> ELSE <<" ">> \o UpperCase(Tail(d))

Directions == {<<>>} \cup {<<" ">> \o d : d \in Keys(sortMap)}

\* C8: the clause parseOrderBy returns for a list of one or two items over
\* the keys of the field map is the input with each field replaced by its own
\* column and each direction by its upper-case form, the separators kept.
C8_OrderByRewritten ==
  (ret.op = "parseOrderBy" /\ ret.res.err = NoError) =>
    /\ \A k \in Keys(Data), d \in Directions :
         parseQueryOption(url, orderBy) = k \o d =>
           ret.res.val = Ptr(MapGet(Data, k) \o ClaimedDirection(d))
    /\ \A k \in Keys(Data), d \in Directions, sep \in {<<",">>, <<",", " ">>},
          j \in Keys(Data), e \in Directions :
         parseQueryOption(url, orderBy) = k \o d \o sep \o j \o e =>
           ret.res.val = Ptr(MapGet(Data, k) \o ClaimedDirection(d) \o sep
                               \o MapGet(Data, j) \o ClaimedDirection(e))

\* C9: in a chain parseFilter returns (one whose clauses all name keys of the
\* field map), every node but the last has the conjunction AND or OR and the
\* last node has none.
C9_ChainConjunctions ==
  (/\ ret.op = "parseFilter"
   /\ ret.res.val # Nil
   /\ \A i \in 1..Len(Deref(ret.res.val).Head) :
        Deref(ret.res.val).Head[i].Field # <<>>) =>
    \A i \in 1..Len(Deref(ret.res.val).Head) :
      IF i < Len(Deref(ret.res.val).Head)
      THEN Deref(ret.res.val).Head[i].Conjunction \in Columns(conjMap)
      ELSE Deref(ret.res.val).Head[i].Conjunction = <<>>

\* C10: two calls of ParseURL with the same query string and schema, which
\* differ in the orders their range statements draw only, have the same
\* outcome.
C10_Deterministic ==
  [][(ret.op = "ParseURL" /\ ret'.op = "ParseURL") => ret'.res = ret.res]_vars
====
